---- MODULE Spec2Model ----
(***************************************************************************)
(* Model of the AnonymousMentalHealth contract                             *)
(* (src/base-template/scripts/deploy.ts, lines 65-365): profile store,     *)
(* session scheduler, threshold monitor and therapy plans.  Every external *)
(* function is one atomic transaction; a reverted transaction leaves the   *)
(* storage untouched and emits nothing.  `result' and `events' are the     *)
(* receipt of the last transaction, `call' names it.                       *)
(***************************************************************************)
EXTENDS Integers, Naturals, Sequences, FiniteSets, TLC

\* ---------------------------------------------------------------- bounds
MaxElapsed == 3600          \* seconds of chain time explored after deployment
MaxSessionId == 3           \* the session mapping is modelled on ids 0..MaxSessionId
MaxTx == 4                  \* transactions submitted after deployment
MaxLevel == 11              \* levels supplied to the threshold monitor: 0..MaxLevel
MaxMonitorTx == 2           \* transactions of a run of SpecMonitor
MaxValueTx == 3             \* transactions of a run of SpecValues
MaxCounterCalls == 3        \* transactions of a run of SpecCounter

\* ------------------------------------------------------- program constants
BREAK_DURATION == 1800
MaxUint16 == 65535
\* A uint32 is written as its two 16-bit halves <<high, low>>, so that every
\* number the model computes with stays below 2^31.
Half == MaxUint16 + 1
MaxUint32 == <<MaxUint16, MaxUint16>>
DeployTime == 1000           \* block.timestamp of the deployment block

\* ------------------------------------------------------------- identities
Deployer == "counselor"
Addr == {"counselor", "patient1", "patient2"}
ZeroAddress == "0x0"
This == "contract"

\* ------------------------------------------------------------ input sets
LevelTriples == {<<7, 5, 6>>, <<11, 5, 6>>, <<7, 11, 6>>, <<7, 5, 11>>}
SessionTypes == {0, 1, 5}
SeverityLevels == {0, 8, 11}
Scores == {10, 11}
PlanInputs == {<<10, 3>>, <<0, 3>>, <<21, 3>>, <<10, 0>>, <<10, 5>>}
Deltas == {BREAK_DURATION - 1, BREAK_DURATION}
SessionIds == 0..MaxSessionId
AllTriples == (0..MaxLevel) \X (0..MaxLevel) \X (0..MaxLevel)
MonitorPatient == "patient1"
\* Inputs of SpecValues: two identities; for every clinical argument two
\* accepted values with the same outcome and a rejected one; for the levels
\* two triples below the emergency threshold, two above it and a rejected
\* one.
ValueAddr == {"counselor", "patient1"}
ValueTriples == {<<7, 5, 6>>, <<5, 4, 6>>, <<9, 5, 6>>, <<8, 8, 8>>, <<11, 5, 6>>}
ValueTypes == {1, 4, 5}
ValueSeverities == {1, 8, 11}
ValueScores == {0, 10, 11}
CounterValues == {<<0, 1>>, <<0, 5>>, <<1, 0>>, MaxUint32}
ValuePlans == {<<10, 3>>, <<20, 4>>, <<21, 3>>}

\* --------------------------------------------- external FHE capability
\* A ciphertext handle: the plaintext behind it and the principals that
\* were granted access to it.  `init' is FALSE for the zero handle of an
\* unwritten storage slot.
NoHandle == [init |-> FALSE, plain |-> 0, allowed |-> {}]

asEuint8(v) == [init |-> TRUE, plain |-> v, allowed |-> {}]

allow_Anyone(h, who) == [h EXCEPT !.allowed = @ \cup Addr]

allow(h, who) == [h EXCEPT !.allowed = @ \cup {who}]

allowThis(h) == allow(h, This)

\* euint32 arithmetic: an uninitialized operand counts as an encrypted zero,
\* the result is a fresh handle, and the arithmetic wraps at 2^32.
NoHandle32 == [init |-> FALSE, plain |-> <<0, 0>>, allowed |-> {}]

asEuint32(v) == [init |-> TRUE, plain |-> v, allowed |-> {}]

add(a, b) ==
    LET low == a.plain[2] + b.plain[2]
        high == a.plain[1] + b.plain[1] + low \div Half
    IN  asEuint32(<<high % Half, low % Half>>)

sub_Saturating(a, b) ==
    LET low == a.plain[2] - b.plain[2]
        high == a.plain[1] - b.plain[1] + low \div Half
    IN  asEuint32(IF high < 0 THEN <<0, 0>> ELSE <<high, low % Half>>)

sub(a, b) ==
    LET low == a.plain[2] - b.plain[2]
        high == a.plain[1] - b.plain[1] + low \div Half
    IN  asEuint32(<<high % Half, low % Half>>)

\* The coprocessor computes on a handle only for a caller holding a grant.
isAllowed(h, who) == ~h.init \/ who \in h.allowed

\* ------------------------------------------------------------------ state
\* now      : block.timestamp of the block being executed
\* counselor .. patientSessions : the contract's storage variables
\* call     : operation and sender of the last transaction
\* result   : "ok", or the revert reason of the last transaction
\* events   : the events the last transaction emitted, in order
\* _count   : storage of the FHECounter contract
\* counterCalls : the transactions sent to FHECounter, in order
\* userAccount, app_currentSessionId : the globals of the web page (app.js;
\*            its currentSessionId is renamed, the contract has one too)
\* pending  : the transaction the page has sent and is waiting for
\* txCount  : number of transactions sent since deployment
VARIABLES now, counselor, currentSessionId, lastSessionTime,
          patientProfiles, sessions, therapyPlans, patientSessions,
          call, result, events, txCount,
          _count, counterCalls,
          userAccount, app_currentSessionId, pending

storage == <<counselor, currentSessionId, lastSessionTime,
             patientProfiles, sessions, therapyPlans, patientSessions>>

\* State of the other programs of the repository.
counter == <<_count, counterCalls>>

page == <<userAccount, app_currentSessionId, pending>>

elsewhere == <<counter, page>>

vars == <<now, counselor, currentSessionId, lastSessionTime,
          patientProfiles, sessions, therapyPlans, patientSessions,
          call, result, events, txCount,
          _count, counterCalls,
          userAccount, app_currentSessionId, pending>>

NoProfile == [anxietyLevel |-> NoHandle, depressionLevel |-> NoHandle,
              stressLevel |-> NoHandle, isActive |-> FALSE,
              registrationTime |-> 0]

NoSession == [sessionType |-> NoHandle, severityLevel |-> NoHandle,
              sessionActive |-> FALSE, sessionCompleted |-> FALSE,
              patient |-> ZeroAddress, startTime |-> 0, endTime |-> 0,
              improvementScore |-> NoHandle]

\* The page before a wallet is connected, holding no session id and
\* waiting for no transaction.
NoAccount == "undefined"

null == 0 - 1

NoPending == [op |-> "none", sender |-> NoAccount, nonce |-> 0, id |-> null]

NoPlan == [recommendedSessions |-> NoHandle, priorityLevel |-> NoHandle,
           planActive |-> FALSE, createdTime |-> 0]

Event(name, id, patient, time) ==
    [name |-> name, sessionId |-> id, patient |-> patient, time |-> time]

\* A transaction that reverts: storage untouched, no event, the reason kept.
Revert_KeepsClock(op, sender, reason) ==
    /\ txCount < MaxTx
    /\ txCount' = txCount + 1
    /\ call' = [op |-> op, sender |-> sender]
    /\ result' = reason
    /\ events' = <<>>
    /\ lastSessionTime' = now
    /\ UNCHANGED elsewhere
    /\ UNCHANGED <<now, counselor, currentSessionId, patientProfiles,
                   sessions, therapyPlans, patientSessions>>

Revert(op, sender, reason) ==
    /\ txCount < MaxTx
    /\ txCount' = txCount + 1
    /\ call' = [op |-> op, sender |-> sender]
    /\ result' = reason
    /\ events' = <<>>
    /\ UNCHANGED <<now, storage, elsewhere>>

Receipt(op, sender, log) ==
    /\ txCount < MaxTx
    /\ txCount' = txCount + 1
    /\ call' = [op |-> op, sender |-> sender]
    /\ result' = "ok"
    /\ events' = log
    /\ UNCHANGED <<now, elsewhere>>

\* ------------------------------------------------------------ constructor
Init_NoCounselor ==
    /\ now = DeployTime
    /\ counselor = ZeroAddress
    /\ currentSessionId = 1
    /\ lastSessionTime = DeployTime
    /\ patientProfiles = [a \in Addr |-> NoProfile]
    /\ sessions = [i \in SessionIds |-> NoSession]
    /\ therapyPlans = [a \in Addr |-> NoPlan]
    /\ patientSessions = [a \in Addr |-> <<>>]
    /\ call = [op |-> "constructor", sender |-> Deployer]
    /\ result = "ok"
    /\ events = <<>>
    /\ txCount = 0
    /\ _count = NoHandle32
    /\ counterCalls = <<>>
    /\ userAccount = NoAccount
    /\ app_currentSessionId = null
    /\ pending = NoPending

Init ==
    /\ now = DeployTime
    /\ counselor = Deployer
    /\ currentSessionId = 1
    /\ lastSessionTime = DeployTime
    /\ patientProfiles = [a \in Addr |-> NoProfile]
    /\ sessions = [i \in SessionIds |-> NoSession]
    /\ therapyPlans = [a \in Addr |-> NoPlan]
    /\ patientSessions = [a \in Addr |-> <<>>]
    /\ call = [op |-> "constructor", sender |-> Deployer]
    /\ result = "ok"
    /\ events = <<>>
    /\ txCount = 0
    /\ _count = NoHandle32
    /\ counterCalls = <<>>
    /\ userAccount = NoAccount
    /\ app_currentSessionId = null
    /\ pending = NoPending

\* ------------------------------------------------------------------ views
isSessionTimeAvailable_NoBreak == now >= lastSessionTime

isSessionTimeAvailable_Strict == now > lastSessionTime + BREAK_DURATION

isSessionTimeAvailable == now >= lastSessionTime + BREAK_DURATION

getSessionAvailability_NextFromLast ==
    [available |-> isSessionTimeAvailable,
     nextAvailableTime |-> lastSessionTime + BREAK_DURATION,
     currentTime |-> now]

getSessionAvailability ==
    [available |-> isSessionTimeAvailable,
     nextAvailableTime |-> IF isSessionTimeAvailable THEN now
                           ELSE lastSessionTime + BREAK_DURATION,
     currentTime |-> now]

getSessionStats_TotalIsNext ==
    [nextSessionId |-> currentSessionId,
     totalSessions |-> currentSessionId,
     lastSession |-> lastSessionTime]

getSessionStats ==
    [nextSessionId |-> currentSessionId,
     totalSessions |-> currentSessionId - 1,
     lastSession |-> lastSessionTime]

getPatientSessionCount(p) == Len(patientSessions[p])

getSessionInfo(id) ==
    [sessionActive |-> sessions[id].sessionActive,
     sessionCompleted |-> sessions[id].sessionCompleted,
     startTime |-> sessions[id].startTime,
     endTime |-> sessions[id].endTime,
     patient |-> sessions[id].patient]

isPatientRegistered(p) == patientProfiles[p].isActive

\* ------------------------------------------------------ threshold monitor
EmergencyLevel_AllAbove7(anxiety, depression, stress) ==
    \/ anxiety >= 9
    \/ depression >= 9
    \/ stress >= 9
    \/ (anxiety > 7 /\ depression > 7 /\ stress > 7)

EmergencyLevel(anxiety, depression, stress) ==
    \/ anxiety >= 9
    \/ depression >= 9
    \/ stress >= 9
    \/ (anxiety >= 7 /\ depression >= 7 /\ stress >= 7)

_checkEmergencyLevel_AnxietyOnly(sender, anxiety, depression, stress) ==
    IF anxiety >= 9
    THEN <<Event("EmergencyAlert", 0, sender, now)>>
    ELSE <<>>

_checkEmergencyLevel_LeaksLevel(sender, anxiety, depression, stress) ==
    IF EmergencyLevel(anxiety, depression, stress)
    THEN <<Event("EmergencyAlert", anxiety, sender, now)>>
    ELSE <<>>

_checkEmergencyLevel(sender, anxiety, depression, stress) ==
    IF EmergencyLevel(anxiety, depression, stress)
    THEN <<Event("EmergencyAlert", 0, sender, now)>>
    ELSE <<>>

\* Grants given to the three profile handles: contract, owner, counselor.
ProfileHandle_OwnerOnly(v, sender) ==
    allow(allowThis(asEuint8(v)), sender)

ProfileHandle(v, sender) ==
    allow(allow(allowThis(asEuint8(v)), sender), counselor)

\* ---------------------------------------------------------------- modifiers
onlyRegisteredPatient_Anyone(sender) == TRUE

onlyRegisteredPatient(sender) == patientProfiles[sender].isActive

\* ---------------------------------------------------------- registerPatient
LevelsInRange_AnxietyOnly(a, d, s) == a <= 10

LevelsInRange(a, d, s) == a <= 10 /\ d <= 10 /\ s <= 10

AlreadyRegistered_Never(sender) == FALSE

AlreadyRegistered(sender) == patientProfiles[sender].isActive

registerPatient_DuplicateFirst(sender, a, d, s) ==
    IF AlreadyRegistered(sender)
    THEN Revert("registerPatient", sender, "Patient already registered")
    ELSE IF ~LevelsInRange(a, d, s)
    THEN Revert("registerPatient", sender, "Levels must be 0-10")
    ELSE
      /\ patientProfiles' = [patientProfiles EXCEPT ![sender] =
             [anxietyLevel |-> ProfileHandle(a, sender),
              depressionLevel |-> ProfileHandle(d, sender),
              stressLevel |-> ProfileHandle(s, sender),
              isActive |-> TRUE,
              registrationTime |-> now]]
      /\ UNCHANGED <<counselor, currentSessionId, lastSessionTime,
                     sessions, therapyPlans, patientSessions>>
      /\ Receipt("registerPatient", sender,
                 _checkEmergencyLevel(sender, a, d, s)
                   \o <<Event("PatientRegistered", 0, sender, now)>>)

registerPatient(sender, a, d, s) ==
    IF ~LevelsInRange(a, d, s)
    THEN Revert("registerPatient", sender, "Levels must be 0-10")
    ELSE IF AlreadyRegistered(sender)
    THEN Revert("registerPatient", sender, "Patient already registered")
    ELSE
      /\ patientProfiles' = [patientProfiles EXCEPT ![sender] =
             [anxietyLevel |-> ProfileHandle(a, sender),
              depressionLevel |-> ProfileHandle(d, sender),
              stressLevel |-> ProfileHandle(s, sender),
              isActive |-> TRUE,
              registrationTime |-> now]]
      /\ UNCHANGED <<counselor, currentSessionId, lastSessionTime,
                     sessions, therapyPlans, patientSessions>>
      /\ Receipt("registerPatient", sender,
                 _checkEmergencyLevel(sender, a, d, s)
                   \o <<Event("PatientRegistered", 0, sender, now)>>)

\* -------------------------------------------------- startCounselingSession
\* Modifiers run first, in the order written: onlyRegisteredPatient, then
\* sessionAvailable; then the two argument checks of the body.  The
\* increment of the uint16 counter is checked arithmetic.
\* patientSessions[msg.sender].push(id)
push_Front(list, id) == <<id>> \o list

push(list, id) == Append(list, id)

NextSessionId_Wraps(id) == (id + 1) % (MaxUint16 + 1)

NextSessionId_Stuck(id) == id

NextSessionId(id) == id + 1

startCounselingSession_ClockFromRecord(sender, type, severity) ==
    IF ~onlyRegisteredPatient(sender)
    THEN Revert("startCounselingSession", sender, "Patient not registered")
    ELSE IF ~isSessionTimeAvailable
    THEN Revert("startCounselingSession", sender, "No session slots available")
    ELSE IF ~(type >= 1 /\ type <= 4)
    THEN Revert("startCounselingSession", sender, "Invalid session type")
    ELSE IF ~(severity >= 1 /\ severity <= 10)
    THEN Revert("startCounselingSession", sender, "Severity must be 1-10")
    ELSE IF NextSessionId(currentSessionId) > MaxUint16
    THEN Revert("startCounselingSession", sender, "Panic(0x11)")
    ELSE
      /\ \/ currentSessionId < MaxSessionId
         \/ currentSessionId > MaxUint16 - MaxSessionId
      /\ sessions' = [sessions EXCEPT ![currentSessionId] =
             [sessionType |-> allow(allowThis(asEuint8(type)), counselor),
              severityLevel |-> allow(allowThis(asEuint8(severity)), counselor),
              sessionActive |-> TRUE,
              sessionCompleted |-> FALSE,
              patient |-> sender,
              startTime |-> now,
              endTime |-> 0,
              improvementScore |-> asEuint8(0)]]
      /\ patientSessions' = [patientSessions EXCEPT ![sender] =
             push(@, currentSessionId)]
      /\ currentSessionId' = NextSessionId(currentSessionId)
      /\ lastSessionTime' = 0
      /\ UNCHANGED <<counselor, patientProfiles, therapyPlans>>
      /\ Receipt("startCounselingSession", sender,
                 <<Event("SessionStarted", currentSessionId, sender, now)>>)

startCounselingSession(sender, type, severity) ==
    IF ~onlyRegisteredPatient(sender)
    THEN Revert("startCounselingSession", sender, "Patient not registered")
    ELSE IF ~isSessionTimeAvailable
    THEN Revert("startCounselingSession", sender, "No session slots available")
    ELSE IF ~(type >= 1 /\ type <= 4)
    THEN Revert("startCounselingSession", sender, "Invalid session type")
    ELSE IF ~(severity >= 1 /\ severity <= 10)
    THEN Revert("startCounselingSession", sender, "Severity must be 1-10")
    ELSE IF NextSessionId(currentSessionId) > MaxUint16
    THEN Revert("startCounselingSession", sender, "Panic(0x11)")
    ELSE
      /\ \/ currentSessionId < MaxSessionId
         \/ currentSessionId > MaxUint16 - MaxSessionId
      /\ sessions' = [sessions EXCEPT ![currentSessionId] =
             [sessionType |-> allow(allowThis(asEuint8(type)), counselor),
              severityLevel |-> allow(allowThis(asEuint8(severity)), counselor),
              sessionActive |-> TRUE,
              sessionCompleted |-> FALSE,
              patient |-> sender,
              startTime |-> now,
              endTime |-> 0,
              improvementScore |-> asEuint8(0)]]
      /\ patientSessions' = [patientSessions EXCEPT ![sender] =
             push(@, currentSessionId)]
      /\ currentSessionId' = NextSessionId(currentSessionId)
      /\ lastSessionTime' = now
      /\ UNCHANGED <<counselor, patientProfiles, therapyPlans>>
      /\ Receipt("startCounselingSession", sender,
                 <<Event("SessionStarted", currentSessionId, sender, now)>>)

\* ---------------------------------------------------------- completeSession
MayComplete_OwnerOnly(sender, id) == sessions[id].patient = sender

MayComplete(sender, id) == sessions[id].patient = sender \/ sender = counselor

Completed_StillActive(session, score, time) ==
    [session EXCEPT !.improvementScore =
                        allow(allow(allowThis(asEuint8(score)),
                                    session.patient), counselor),
                    !.sessionCompleted = TRUE,
                    !.endTime = time]

Completed_NotMarked(session, score, time) ==
    [session EXCEPT !.improvementScore =
                        allow(allow(allowThis(asEuint8(score)),
                                    session.patient), counselor),
                    !.sessionActive = FALSE,
                    !.endTime = time]

Completed_CounselorOnly(session, score, time) ==
    [session EXCEPT !.improvementScore =
                        allow(allowThis(asEuint8(score)), counselor),
                    !.sessionActive = FALSE,
                    !.sessionCompleted = TRUE,
                    !.endTime = time]

Completed_NoEndTime(session, score, time) ==
    [session EXCEPT !.improvementScore =
                        allow(allow(allowThis(asEuint8(score)),
                                    session.patient), counselor),
                    !.sessionActive = FALSE,
                    !.sessionCompleted = TRUE]

Completed_RestampsStart(session, score, time) ==
    [session EXCEPT !.improvementScore =
                        allow(allow(allowThis(asEuint8(score)),
                                    session.patient), counselor),
                    !.sessionActive = FALSE,
                    !.sessionCompleted = TRUE,
                    !.startTime = time,
                    !.endTime = time]

Completed(session, score, time) ==
    [session EXCEPT !.improvementScore =
                        allow(allow(allowThis(asEuint8(score)),
                                    session.patient), counselor),
                    !.sessionActive = FALSE,
                    !.sessionCompleted = TRUE,
                    !.endTime = time]

completeSession_RestartsCooldown(sender, id, score) ==
    IF ~(score <= 10)
    THEN Revert("completeSession", sender, "Improvement score must be 0-10")
    ELSE IF ~MayComplete(sender, id)
    THEN Revert("completeSession", sender, "Not authorized")
    ELSE IF ~sessions[id].sessionActive
    THEN Revert("completeSession", sender, "Session not active")
    ELSE IF sessions[id].sessionCompleted
    THEN Revert("completeSession", sender, "Session already completed")
    ELSE
      /\ sessions' = [sessions EXCEPT ![id] = Completed(@, score, now)]
      /\ lastSessionTime' = now
      /\ UNCHANGED <<counselor, currentSessionId,
                     patientProfiles, therapyPlans, patientSessions>>
      /\ Receipt("completeSession", sender,
                 <<Event("SessionCompleted", id, sessions[id].patient, now)>>)

completeSession_NamesSender(sender, id, score) ==
    IF ~(score <= 10)
    THEN Revert("completeSession", sender, "Improvement score must be 0-10")
    ELSE IF ~MayComplete(sender, id)
    THEN Revert("completeSession", sender, "Not authorized")
    ELSE IF ~sessions[id].sessionActive
    THEN Revert("completeSession", sender, "Session not active")
    ELSE IF sessions[id].sessionCompleted
    THEN Revert("completeSession", sender, "Session already completed")
    ELSE
      /\ sessions' = [sessions EXCEPT ![id] = Completed(@, score, now)]
      /\ UNCHANGED <<counselor, currentSessionId, lastSessionTime,
                     patientProfiles, therapyPlans, patientSessions>>
      /\ Receipt("completeSession", sender,
                 <<Event("SessionCompleted", id, sender, now)>>)

completeSession(sender, id, score) ==
    IF ~(score <= 10)
    THEN Revert("completeSession", sender, "Improvement score must be 0-10")
    ELSE IF ~MayComplete(sender, id)
    THEN Revert("completeSession", sender, "Not authorized")
    ELSE IF ~sessions[id].sessionActive
    THEN Revert("completeSession", sender, "Session not active")
    ELSE IF sessions[id].sessionCompleted
    THEN Revert("completeSession", sender, "Session already completed")
    ELSE
      /\ sessions' = [sessions EXCEPT ![id] = Completed(@, score, now)]
      /\ UNCHANGED <<counselor, currentSessionId, lastSessionTime,
                     patientProfiles, therapyPlans, patientSessions>>
      /\ Receipt("completeSession", sender,
                 <<Event("SessionCompleted", id, sessions[id].patient, now)>>)

\* -------------------------------------------------------- createTherapyPlan
onlyCounselor_Registered(sender) == patientProfiles[sender].isActive

onlyCounselor(sender) == sender = counselor

\* Grants given to the two plan handles: contract and patient.
PlanHandle_AlsoCounselor(v, patient) ==
    allow(allow(allowThis(asEuint8(v)), patient), counselor)

PlanHandle(v, patient) == allow(allowThis(asEuint8(v)), patient)

createTherapyPlan(sender, patient, recommended, priority) ==
    IF ~onlyCounselor(sender)
    THEN Revert("createTherapyPlan", sender, "Not authorized counselor")
    ELSE IF ~patientProfiles[patient].isActive
    THEN Revert("createTherapyPlan", sender, "Patient not registered")
    ELSE IF ~(recommended > 0 /\ recommended <= 20)
    THEN Revert("createTherapyPlan", sender, "Sessions must be 1-20")
    ELSE IF ~(priority >= 1 /\ priority <= 4)
    THEN Revert("createTherapyPlan", sender, "Priority must be 1-4")
    ELSE
      /\ therapyPlans' = [therapyPlans EXCEPT ![patient] =
             [recommendedSessions |-> PlanHandle(recommended, patient),
              priorityLevel |-> PlanHandle(priority, patient),
              planActive |-> TRUE,
              createdTime |-> now]]
      /\ UNCHANGED <<counselor, currentSessionId, lastSessionTime,
                     patientProfiles, sessions, patientSessions>>
      /\ Receipt("createTherapyPlan", sender,
                 <<Event("TherapyPlanCreated", 0, patient, now)>>)

\* ------------------------------------------------- updateMentalHealthLevels
updateMentalHealthLevels(sender, a, d, s) ==
    IF ~onlyRegisteredPatient(sender)
    THEN Revert("updateMentalHealthLevels", sender, "Patient not registered")
    ELSE IF ~LevelsInRange(a, d, s)
    THEN Revert("updateMentalHealthLevels", sender, "Levels must be 0-10")
    ELSE
      /\ patientProfiles' = [patientProfiles EXCEPT ![sender] =
             [@ EXCEPT !.anxietyLevel = ProfileHandle(a, sender),
                       !.depressionLevel = ProfileHandle(d, sender),
                       !.stressLevel = ProfileHandle(s, sender)]]
      /\ UNCHANGED <<counselor, currentSessionId, lastSessionTime,
                     sessions, therapyPlans, patientSessions>>
      /\ Receipt("updateMentalHealthLevels", sender,
                 _checkEmergencyLevel(sender, a, d, s))

\* ------------------------------------------------------------- block clock
\* Chain time advances between transactions (evm_increaseTime / evm_mine).
Mine(d) ==
    /\ now + d <= DeployTime + MaxElapsed
    /\ now' = now + d
    /\ UNCHANGED <<storage, call, result, events, txCount, elsewhere>>

Next ==
    \/ \E sender \in Addr, l \in LevelTriples :
           registerPatient(sender, l[1], l[2], l[3])
    \/ \E sender \in Addr, l \in LevelTriples :
           updateMentalHealthLevels(sender, l[1], l[2], l[3])
    \/ \E sender \in Addr, type \in SessionTypes, severity \in SeverityLevels :
           startCounselingSession(sender, type, severity)
    \/ \E sender \in Addr, id \in SessionIds, score \in Scores :
           completeSession(sender, id, score)
    \/ \E sender \in Addr, patient \in Addr, p \in PlanInputs :
           createTherapyPlan(sender, patient, p[1], p[2])
    \/ \E d \in Deltas : Mine(d)

Spec == Init /\ [][Next]_vars

\* One participant registers and then updates with every triple of levels
\* in 0..MaxLevel: the runs that exercise the threshold monitor on all its
\* inputs.
NextMonitor ==
    /\ txCount < MaxMonitorTx
    /\ \/ \E l \in ValueTriples :
              registerPatient(MonitorPatient, l[1], l[2], l[3])
       \/ \E l \in AllTriples :
              updateMentalHealthLevels(MonitorPatient, l[1], l[2], l[3])

SpecMonitor == Init /\ [][NextMonitor]_vars

\* Short runs of all the operations in which the clinical values vary.
NextValues ==
    \/ /\ txCount < MaxValueTx
       /\ \/ \E sender \in ValueAddr, l \in ValueTriples :
                 registerPatient(sender, l[1], l[2], l[3])
          \/ \E sender \in ValueAddr, l \in ValueTriples :
                 updateMentalHealthLevels(sender, l[1], l[2], l[3])
          \/ \E sender \in ValueAddr, type \in ValueTypes,
                 severity \in ValueSeverities :
                 startCounselingSession(sender, type, severity)
          \/ \E sender \in ValueAddr, id \in SessionIds, score \in ValueScores :
                 completeSession(sender, id, score)
          \/ \E sender \in ValueAddr, patient \in ValueAddr, p \in ValuePlans :
                 createTherapyPlan(sender, patient, p[1], p[2])
    \/ Mine(BREAK_DURATION)

SpecValues == Init /\ [][NextValues]_vars

\* The chain keeps producing blocks: the clock is capped only while no
\* cooldown is running, so that time can always pass a running cooldown.
MineOn(d) ==
    /\ now + d <= DeployTime + MaxElapsed \/ ~isSessionTimeAvailable
    /\ now' = now + d
    /\ UNCHANGED <<storage, call, result, events, txCount, elsewhere>>

NextLive ==
    \/ /\ txCount < MaxValueTx
       /\ \/ \E sender \in ValueAddr, l \in LevelTriples :
                 registerPatient(sender, l[1], l[2], l[3])
          \/ \E sender \in ValueAddr, l \in LevelTriples :
                 updateMentalHealthLevels(sender, l[1], l[2], l[3])
          \/ \E sender \in ValueAddr, type \in SessionTypes,
                 severity \in SeverityLevels :
                 startCounselingSession(sender, type, severity)
          \/ \E sender \in ValueAddr, id \in SessionIds, score \in Scores :
                 completeSession(sender, id, score)
          \/ \E sender \in ValueAddr, patient \in ValueAddr, p \in PlanInputs :
                 createTherapyPlan(sender, patient, p[1], p[2])
    \/ \E d \in Deltas : MineOn(d)

\* Block production is never suspended for ever.
SpecLive ==
    Init /\ [][NextLive]_vars /\ WF_vars(\E d \in Deltas : MineOn(d))

\* The last ids of the uint16 counter.  The run starts in the state the
\* contract is in when MaxUint16 - 2 sessions have been started, each as
\* soon as the cooldown allowed, all by one participant; of the session
\* records only those with the ids of WrapIds are tracked, and the
\* transaction count starts from there.
WrapIds == {0} \cup ((MaxUint16 - 2)..MaxUint16)

WrapTime == DeployTime + (MaxUint16 - 2) * BREAK_DURATION

InitWrap ==
    /\ now = WrapTime
    /\ counselor = Deployer
    /\ currentSessionId = MaxUint16 - 1
    /\ lastSessionTime = WrapTime
    /\ patientProfiles = [a \in Addr |->
           IF a = MonitorPatient
           THEN [anxietyLevel |-> ProfileHandle(7, a),
                 depressionLevel |-> ProfileHandle(5, a),
                 stressLevel |-> ProfileHandle(6, a),
                 isActive |-> TRUE,
                 registrationTime |-> DeployTime]
           ELSE NoProfile]
    /\ sessions = [i \in WrapIds |->
           IF i = MaxUint16 - 2
           THEN [sessionType |-> allow(allowThis(asEuint8(1)), counselor),
                 severityLevel |-> allow(allowThis(asEuint8(8)), counselor),
                 sessionActive |-> TRUE,
                 sessionCompleted |-> FALSE,
                 patient |-> MonitorPatient,
                 startTime |-> WrapTime,
                 endTime |-> 0,
                 improvementScore |-> asEuint8(0)]
           ELSE NoSession]
    /\ therapyPlans = [a \in Addr |-> NoPlan]
    /\ patientSessions = [a \in Addr |->
           IF a = MonitorPatient THEN <<MaxUint16 - 2>> ELSE <<>>]
    /\ call = [op |-> "startCounselingSession", sender |-> MonitorPatient]
    /\ result = "ok"
    /\ events = <<Event("SessionStarted", MaxUint16 - 2, MonitorPatient,
                        WrapTime)>>
    /\ txCount = 0
    /\ _count = NoHandle32
    /\ counterCalls = <<>>
    /\ userAccount = NoAccount
    /\ app_currentSessionId = null
    /\ pending = NoPending

NextWrap ==
    \/ /\ txCount < MaxValueTx
       /\ \/ \E sender \in ValueAddr, l \in LevelTriples :
                 registerPatient(sender, l[1], l[2], l[3])
          \/ \E sender \in ValueAddr, l \in LevelTriples :
                 updateMentalHealthLevels(sender, l[1], l[2], l[3])
          \/ \E sender \in ValueAddr, type \in SessionTypes,
                 severity \in SeverityLevels :
                 startCounselingSession(sender, type, severity)
          \/ \E sender \in ValueAddr, id \in WrapIds, score \in Scores :
                 completeSession(sender, id, score)
          \/ \E sender \in ValueAddr, patient \in ValueAddr, p \in PlanInputs :
                 createTherapyPlan(sender, patient, p[1], p[2])
    \/ \E d \in Deltas : MineOn(d)

SpecWrap == InitWrap /\ [][NextWrap]_vars

\* ------------------------------------------------------------- FHECounter
CounterCall(op, sender, value, ok) ==
    [op |-> op, sender |-> sender, value |-> value, ok |-> ok]

\* A transaction to FHECounter: the new counter handle, or none when the
\* call reverted.
CounterTx(op, sender, value, ok, count) ==
    /\ Len(counterCalls) < MaxCounterCalls
    /\ counterCalls' = Append(counterCalls, CounterCall(op, sender, value, ok))
    /\ _count' = IF ok THEN count ELSE _count
    /\ UNCHANGED <<now, storage, call, result, events, txCount, page>>

getCount == _count

increment(sender, value) ==
    CounterTx("increment", sender, value, isAllowed(_count, This),
              allow(allowThis(add(_count, asEuint32(value))), sender))

\* proofOk: FHE.fromExternal accepts the input proof.
incrementEncrypted(sender, value, proofOk) ==
    CounterTx("incrementEncrypted", sender, value,
              proofOk /\ isAllowed(_count, This),
              allow(allowThis(add(_count, asEuint32(value))), sender))

decrement(sender, value) ==
    CounterTx("decrement", sender, value, isAllowed(_count, This),
              allow(allowThis(sub(_count, asEuint32(value))), sender))

reset(sender) ==
    CounterTx("reset", sender, <<0, 0>>, TRUE,
              allow(allowThis(asEuint32(<<0, 0>>)), sender))

NextCounter ==
    \/ \E sender \in ValueAddr, value \in CounterValues :
           increment(sender, value)
    \/ \E sender \in ValueAddr, proofOk \in BOOLEAN :
           incrementEncrypted(sender, <<0, 5>>, proofOk)
    \/ \E sender \in ValueAddr, value \in CounterValues :
           decrement(sender, value)
    \/ \E sender \in ValueAddr : reset(sender)

SpecCounter == Init /\ [][NextCounter]_vars

\* ------------------------------------------------------------ web page
\* The values of the page's currentSessionId after checkActiveSession and
\* after updateUserInterface, which calls it for a registered account.
checkActiveSession(account, current) ==
    LET latestSessionId == getSessionStats.nextSessionId - 1 IN
    IF /\ latestSessionId > 0
       /\ getSessionInfo(latestSessionId).patient = account
       /\ getSessionInfo(latestSessionId).sessionActive
       /\ ~getSessionInfo(latestSessionId).sessionCompleted
    THEN latestSessionId
    ELSE current

updateUserInterface(account, current) ==
    IF isPatientRegistered(account)
    THEN checkActiveSession(account, current)
    ELSE current

PageStep ==
    UNCHANGED <<now, storage, call, result, events, txCount, counter>>

connectWallet(account) ==
    /\ userAccount = NoAccount
    /\ userAccount' = account
    /\ app_currentSessionId' =
           updateUserInterface(account, app_currentSessionId)
    /\ UNCHANGED pending
    /\ PageStep

\* The wallet reports another selected account.
handleAccountsChanged(account) ==
    /\ userAccount /= NoAccount
    /\ account /= userAccount
    /\ userAccount' = account
    /\ app_currentSessionId' =
           updateUserInterface(account, app_currentSessionId)
    /\ UNCHANGED pending
    /\ PageStep

\* startSession up to its first await: the transaction is sent from the
\* selected account.
startSession ==
    /\ userAccount /= NoAccount
    /\ pending = NoPending
    /\ pending' = [op |-> "startCounselingSession", sender |-> userAccount,
                   nonce |-> txCount, id |-> null]
    /\ UNCHANGED <<userAccount, app_currentSessionId>>
    /\ PageStep

\* completeSession up to its first await; without a session id the call
\* throws before anything is sent.
app_completeSession ==
    /\ userAccount /= NoAccount
    /\ pending = NoPending
    /\ app_currentSessionId /= null
    /\ pending' = [op |-> "completeSession", sender |-> userAccount,
                   nonce |-> txCount, id |-> app_currentSessionId]
    /\ UNCHANGED <<userAccount, app_currentSessionId>>
    /\ PageStep

\* The chain executes the transaction the page has sent.
minePending ==
    /\ pending /= NoPending
    /\ txCount = pending.nonce
    /\ txCount < MaxValueTx
    /\ \/ /\ pending.op = "startCounselingSession"
          /\ \E type \in SessionTypes, severity \in SeverityLevels :
                 startCounselingSession(pending.sender, type, severity)
       \/ /\ pending.op = "completeSession"
          /\ \E score \in Scores :
                 completeSession(pending.sender, pending.id, score)

\* tx.wait() returns in startSession: the id is read from the receipt.
startSession_wait ==
    /\ pending.op = "startCounselingSession"
    /\ txCount > pending.nonce
    /\ app_currentSessionId' =
           IF result = "ok" /\ events /= <<>>
              /\ events[1].name = "SessionStarted"
           THEN events[1].sessionId
           ELSE app_currentSessionId
    /\ pending' = NoPending
    /\ UNCHANGED userAccount
    /\ PageStep

\* tx.wait() returns in completeSession: the id is cleared and the page
\* refreshed.
app_completeSession_wait ==
    /\ pending.op = "completeSession"
    /\ txCount > pending.nonce
    /\ app_currentSessionId' =
           IF result = "ok"
           THEN updateUserInterface(userAccount, null)
           ELSE app_currentSessionId
    /\ pending' = NoPending
    /\ UNCHANGED userAccount
    /\ PageStep

\* Transactions sent by other clients while the page waits for nothing.
OtherClients ==
    /\ pending = NoPending
    /\ txCount < MaxValueTx
    /\ \/ \E sender \in ValueAddr, l \in LevelTriples :
              registerPatient(sender, l[1], l[2], l[3])
       \/ \E sender \in ValueAddr, id \in SessionIds, score \in Scores :
              completeSession(sender, id, score)

NextPage ==
    \/ \E account \in ValueAddr : connectWallet(account)
    \/ \E account \in ValueAddr : handleAccountsChanged(account)
    \/ startSession
    \/ startSession_wait
    \/ app_completeSession
    \/ app_completeSession_wait
    \/ minePending
    \/ OtherClients
    \/ Mine(BREAK_DURATION)

SpecPage == Init /\ [][NextPage]_vars

\* ================================================================ properties
\* This step is a transaction of the named operation sent by `sender'.
Calls(op, sender) ==
    /\ txCount' = txCount + 1
    /\ call'.op = op
    /\ call'.sender = sender

\* The last step was a transaction (not the clock) of the named operation.
Called(op) == call.op = op /\ txCount > 0

SessionExists(id) == sessions[id].patient /= ZeroAddress

AssignedIds == {i \in SessionIds : SessionExists(i)}

Uncreated(id) == ~sessions[id].sessionActive /\ ~sessions[id].sessionCompleted

Active(id) == sessions[id].sessionActive /\ ~sessions[id].sessionCompleted

Finished(id) == sessions[id].sessionCompleted

C2_OneStartPerWindow ==
    \A i, j \in SessionIds :
        (i /= j /\ SessionExists(i) /\ SessionExists(j))
        => \/ sessions[i].startTime - sessions[j].startTime >= BREAK_DURATION
           \/ sessions[j].startTime - sessions[i].startTime >= BREAK_DURATION

\* Two sessions exist and were started by different identities.
C2_Witness ==
    /\ SessionExists(1)
    /\ SessionExists(2)
    /\ sessions[1].patient /= sessions[2].patient

\* C3: before any session has been started the availability query reports
\* available = TRUE, and the first startCounselingSession of a registered
\* identity with valid arguments succeeds at once and is given id 1.
C3_AvailableFromConstruction ==
    /\ [](currentSessionId = 1 => getSessionAvailability.available)
    /\ [][\A c \in Addr, t \in SessionTypes, s \in SeverityLevels :
            (/\ Calls("startCounselingSession", c)
             /\ currentSessionId = 1
             /\ patientProfiles[c].isActive
             /\ t \in 1..4
             /\ s \in 1..10
             /\ startCounselingSession(c, t, s))
            => /\ result' = "ok"
               /\ events'[1].sessionId = 1]_vars

\* C4: after a successful start by one identity, a start attempted before
\* the cooldown has elapsed by any other identity (registered or not) fails
\* with "No session slots available".
C4_OtherIdentityBlockedByCooldown ==
    [][\A c \in Addr, t \in SessionTypes, s \in SeverityLevels :
         (/\ Calls("startCounselingSession", c)
          /\ currentSessionId > 1
          /\ c /= sessions[currentSessionId - 1].patient
          /\ now < lastSessionTime + BREAK_DURATION
          /\ startCounselingSession(c, t, s))
         => result' = "No session slots available"]_vars

\* C5: the assigned session ids are exactly 1..N after N successful starts:
\* the assigned set is always an initial segment of the positive integers,
\* a successful start adds exactly the next id (the one its event names),
\* and no other step, failed calls included, changes the set.
C5_IdsAreInitialSegment ==
    /\ [](AssignedIds = 1..Cardinality(AssignedIds))
    /\ [][IF /\ txCount' = txCount + 1
             /\ call'.op = "startCounselingSession"
             /\ result' = "ok"
          THEN /\ AssignedIds' = AssignedIds \cup {Cardinality(AssignedIds) + 1}
               /\ Cardinality(AssignedIds') = Cardinality(AssignedIds) + 1
               /\ events'[1].sessionId = Cardinality(AssignedIds) + 1
          ELSE AssignedIds' = AssignedIds]_vars

\* Two ids are assigned and the last call failed.
C5_Witness ==
    /\ AssignedIds = {1, 2}
    /\ txCount > 0
    /\ result /= "ok"

\* C6: once a session is completed, every further completeSession on it by
\* the owner or the counselor, with a score in range, fails with
\* "Session already completed".
C6_SecondCompletionAlreadyCompleted ==
    [][\A c \in Addr, id \in SessionIds, sc \in Scores :
         (/\ Calls("completeSession", c)
          /\ sessions[id].sessionCompleted
          /\ (c = sessions[id].patient \/ c = counselor)
          /\ sc <= 10
          /\ completeSession(c, id, sc))
         => result' = "Session already completed"]_vars

\* C7: a session only moves forward: Active never returns to Uncreated,
\* Completed stays Completed, Uncreated never goes straight to Completed.
C7_LifecycleForwardOnly ==
    [][\A id \in SessionIds :
         /\ Active(id) => (Active(id)' \/ Finished(id)')
         /\ Finished(id) => (Finished(id)' /\ ~sessions'[id].sessionActive)
         /\ Uncreated(id) => ~Finished(id)']_vars

\* A completeSession call has just moved session 1 to Completed.
C7_Witness ==
    /\ Called("completeSession")
    /\ result = "ok"
    /\ Finished(1)

\* C8: for every session id (ids are 1-based) the pair (active, completed)
\* is never (TRUE, TRUE); it is (FALSE, FALSE) exactly for the ids not yet
\* allocated (id >= currentSessionId).
C8_ExactlyOneStatus ==
    \A id \in 1..MaxSessionId :
        /\ ~(sessions[id].sessionActive /\ sessions[id].sessionCompleted)
        /\ (Uncreated(id) <=> (id >= currentSessionId))

\* One session is completed, a later one is active, a further id is unused.
C8_Witness ==
    /\ Finished(1)
    /\ Active(2)
    /\ Uncreated(3)

\* C9: completeSession on an active session with a score in 0..10 succeeds
\* exactly when the caller is the owner or the counselor; any other caller
\* fails with "Not authorized" and the session stays as it was.
C9_CompletionAuthorization ==
    [][\A c \in Addr, id \in SessionIds, sc \in Scores :
         (/\ Calls("completeSession", c)
          /\ sessions[id].sessionActive
          /\ sc <= 10
          /\ completeSession(c, id, sc))
         => IF c = sessions[id].patient \/ c = counselor
            THEN /\ result' = "ok"
                 /\ sessions'[id].sessionCompleted
                 /\ ~sessions'[id].sessionActive
            ELSE /\ result' = "Not authorized"
                 /\ sessions' = sessions]_vars

\* The counselor has completed a session owned by another participant.
C9_Witness ==
    /\ Called("completeSession")
    /\ call.sender = counselor
    /\ result = "ok"
    /\ \E id \in SessionIds :
           /\ Finished(id)
           /\ sessions[id].endTime = now
           /\ sessions[id].patient \notin {counselor, ZeroAddress}

AlertRaised == \E i \in 1..Len(events) : events[i].name = "EmergencyAlert"

\* The last transaction was a successful registerPatient or
\* updateMentalHealthLevels.
LevelsAccepted ==
    /\ txCount > 0
    /\ call.op \in {"registerPatient", "updateMentalHealthLevels"}
    /\ result = "ok"

\* C13: for every triple (anxiety, depression, stress) in 0..10 supplied to
\* registerPatient or updateMentalHealthLevels, the emergency signal is
\* raised if and only if anxiety >= 9 or depression >= 9 or stress >= 9 or
\* all three are >= 7; (9,0,0), (0,9,0), (0,0,9), (7,7,7), (8,8,8) raise,
\* (6,7,7) and (5,4,6) do not.
C13_ThresholdRule ==
    /\ LevelsAccepted =>
         LET a == patientProfiles[call.sender].anxietyLevel.plain
             d == patientProfiles[call.sender].depressionLevel.plain
             s == patientProfiles[call.sender].stressLevel.plain
         IN  /\ a \in 0..10 /\ d \in 0..10 /\ s \in 0..10
             /\ AlertRaised <=> \/ a >= 9
                                \/ d >= 9
                                \/ s >= 9
                                \/ (a >= 7 /\ d >= 7 /\ s >= 7)
    /\ \A l \in {<<9, 0, 0>>, <<0, 9, 0>>, <<0, 0, 9>>, <<7, 7, 7>>, <<8, 8, 8>>} :
           _checkEmergencyLevel(MonitorPatient, l[1], l[2], l[3]) /= <<>>
    /\ \A l \in {<<6, 7, 7>>, <<5, 4, 6>>} :
           _checkEmergencyLevel(MonitorPatient, l[1], l[2], l[3]) = <<>>

\* An update to (7,7,7) has just raised the signal for a participant that
\* had registered earlier.
C13_Witness ==
    /\ Called("updateMentalHealthLevels")
    /\ result = "ok"
    /\ patientProfiles[call.sender].anxietyLevel.plain = 7
    /\ patientProfiles[call.sender].depressionLevel.plain = 7
    /\ patientProfiles[call.sender].stressLevel.plain = 7
    /\ AlertRaised

\* The EmergencyAlert events of a receipt, in order.
IsAlert(e) == e.name = "EmergencyAlert"

Alerts(log) == SelectSeq(log, IsAlert)

\* The threshold rule as the specification words it.
CrossesThreshold(l) ==
    \/ l[1] >= 9
    \/ l[2] >= 9
    \/ l[3] >= 9
    \/ (l[1] >= 7 /\ l[2] >= 7 /\ l[3] >= 7)

\* The receipt of a successful register / update with the triple l by c.
AlertsAsRuled(c, l) ==
    Alerts(events') = IF CrossesThreshold(l)
                      THEN <<Event("EmergencyAlert", 0, c, now)>>
                      ELSE <<>>

\* C14: each successful registerPatient or updateMentalHealthLevels whose
\* values satisfy the threshold rule emits exactly one EmergencyAlert for
\* the caller, each successful one whose values do not satisfy it emits
\* none; an alert emitted by the previous transaction of the same identity
\* does not suppress the next one; failed calls and the other operations
\* emit no EmergencyAlert.
C14_OneAlertPerCrossingCall ==
    [][/\ \A c \in Addr, l \in ValueTriples :
            (/\ Calls("registerPatient", c)
             /\ result' = "ok"
             /\ registerPatient(c, l[1], l[2], l[3]))
            => AlertsAsRuled(c, l)
       /\ \A c \in Addr, l \in ValueTriples :
            (/\ Calls("updateMentalHealthLevels", c)
             /\ result' = "ok"
             /\ updateMentalHealthLevels(c, l[1], l[2], l[3]))
            => /\ AlertsAsRuled(c, l)
               /\ (/\ CrossesThreshold(l)
                   /\ call.sender = c
                   /\ Alerts(events) /= <<>>)
                  => Len(Alerts(events')) = 1
       /\ (/\ txCount' = txCount + 1
           /\ \/ result' /= "ok"
              \/ call'.op \notin {"registerPatient",
                                  "updateMentalHealthLevels"})
          => Alerts(events') = <<>>]_vars

\* The second transaction of a run is an update that raised the alert: the
\* same identity had registered in the first one.
C14_Witness ==
    /\ txCount = 2
    /\ Called("updateMentalHealthLevels")
    /\ result = "ok"
    /\ events = <<Event("EmergencyAlert", 0, call.sender, now)>>
    /\ patientProfiles[call.sender].anxietyLevel.plain = 8

\* The plaintext part of a profile and of a plan: flags and timestamps.
\* (The plaintext part of a session is getSessionInfo.)
ProfileShown(a) ==
    [isActive |-> patientProfiles[a].isActive,
     registrationTime |-> patientProfiles[a].registrationTime]

PlanShown(a) ==
    [planActive |-> therapyPlans[a].planActive,
     createdTime |-> therapyPlans[a].createdTime]

\* What a transaction shows in public: if accepted, the record it touches
\* as given and the listed events; if rejected, nothing.
Shows(accepted, touched, log) ==
    IF accepted
    THEN touched /\ events' = log
    ELSE UNCHANGED storage /\ events' = <<>>

AlertIf(crossed, c) ==
    IF crossed THEN <<Event("EmergencyAlert", 0, c, now)>> ELSE <<>>

\* C15: the public surface does not depend on the clinical values.  Every
\* transaction's events and the plaintext storage after it (flags,
\* timestamps, owners, counters) are determined by the storage before it,
\* the time, the caller, the non-clinical arguments (session id, plan
\* patient), the accept/reject outcome and the threshold outcome; so two
\* runs that agree on those and differ in levels, type, severity, score or
\* plan values show the same events and the same plaintext storage.  Every
\* event holds a name, an identity, a timestamp and a session id, nothing
\* else.
C15_PublicSurfaceValueFree ==
    [][/\ \A c \in Addr, l \in ValueTriples :
            (Calls("registerPatient", c)
             /\ registerPatient(c, l[1], l[2], l[3]))
            => Shows(result' = "ok",
                     /\ ProfileShown(c)' =
                          [isActive |-> TRUE, registrationTime |-> now]
                     /\ \A a \in Addr \ {c} :
                          patientProfiles'[a] = patientProfiles[a]
                     /\ UNCHANGED <<counselor, currentSessionId,
                                    lastSessionTime, sessions,
                                    therapyPlans, patientSessions>>,
                     AlertIf(CrossesThreshold(l), c)
                       \o <<Event("PatientRegistered", 0, c, now)>>)
       /\ \A c \in Addr, l \in ValueTriples :
            (Calls("updateMentalHealthLevels", c)
             /\ updateMentalHealthLevels(c, l[1], l[2], l[3]))
            => Shows(result' = "ok",
                     /\ ProfileShown(c)' = ProfileShown(c)
                     /\ \A a \in Addr \ {c} :
                          patientProfiles'[a] = patientProfiles[a]
                     /\ UNCHANGED <<counselor, currentSessionId,
                                    lastSessionTime, sessions,
                                    therapyPlans, patientSessions>>,
                     AlertIf(CrossesThreshold(l), c))
       /\ \A c \in Addr, t \in ValueTypes, s \in ValueSeverities :
            (Calls("startCounselingSession", c)
             /\ startCounselingSession(c, t, s))
            => Shows(result' = "ok",
                     /\ \A id \in SessionIds :
                          IF id = currentSessionId
                          THEN getSessionInfo(id)' =
                                 [sessionActive |-> TRUE,
                                  sessionCompleted |-> FALSE,
                                  startTime |-> now, endTime |-> 0,
                                  patient |-> c]
                          ELSE sessions'[id] = sessions[id]
                     /\ patientSessions' =
                          [patientSessions EXCEPT
                             ![c] = Append(@, currentSessionId)]
                     /\ currentSessionId' = currentSessionId + 1
                     /\ lastSessionTime' = now
                     /\ UNCHANGED <<counselor, patientProfiles,
                                    therapyPlans>>,
                     <<Event("SessionStarted", currentSessionId, c, now)>>)
       /\ \A c \in Addr, id \in SessionIds, sc \in ValueScores :
            (Calls("completeSession", c)
             /\ completeSession(c, id, sc))
            => Shows(result' = "ok",
                     /\ getSessionInfo(id)' =
                          [getSessionInfo(id) EXCEPT
                             !.sessionActive = FALSE,
                             !.sessionCompleted = TRUE,
                             !.endTime = now]
                     /\ \A i \in SessionIds \ {id} :
                          sessions'[i] = sessions[i]
                     /\ UNCHANGED <<counselor, currentSessionId,
                                    lastSessionTime, patientProfiles,
                                    therapyPlans, patientSessions>>,
                     <<Event("SessionCompleted", id,
                             sessions[id].patient, now)>>)
       /\ \A c \in Addr, q \in Addr, p \in ValuePlans :
            (Calls("createTherapyPlan", c)
             /\ createTherapyPlan(c, q, p[1], p[2]))
            => Shows(result' = "ok",
                     /\ PlanShown(q)' =
                          [planActive |-> TRUE, createdTime |-> now]
                     /\ \A a \in Addr \ {q} :
                          therapyPlans'[a] = therapyPlans[a]
                     /\ UNCHANGED <<counselor, currentSessionId,
                                    lastSessionTime, patientProfiles,
                                    sessions, patientSessions>>,
                     <<Event("TherapyPlanCreated", 0, q, now)>>)
       /\ (txCount' = txCount) => UNCHANGED <<storage, events>>
       /\ (txCount' = txCount + 1)
          => \A i \in 1..Len(events') :
               /\ DOMAIN events'[i] = {"name", "sessionId", "patient", "time"}
               /\ events'[i].patient \in Addr
               /\ events'[i].time = now
               /\ events'[i].sessionId \in SessionIds]_vars

\* A session opened with type 4 and severity 1 by a participant whose
\* levels are (5,4,6) has just been completed with score 0: none of the
\* values is the one the other runs of the model use.
C15_Witness ==
    /\ Called("completeSession")
    /\ result = "ok"
    /\ sessions[1].sessionType.plain = 4
    /\ sessions[1].severityLevel.plain = 1
    /\ sessions[1].improvementScore.plain = 0
    /\ patientProfiles[sessions[1].patient].anxietyLevel.plain = 5

\* The receipt of the step holds a PatientRegistered event for a.
RegisteredEvents(log, a) ==
    SelectSeq(log, LAMBDA e : e.name = "PatientRegistered" /\ e.patient = a)

\* C16: registration is permanent and single.  An active profile stays
\* active and keeps its registrationTime in every step
\* (updateMentalHealthLevels included); a profile becomes active only by a
\* successful registerPatient of its owner, which sets registrationTime to
\* the time of the call and emits one PatientRegistered; PatientRegistered
\* is emitted for an identity only by the transaction that activates its
\* profile, hence at most once.
C16_RegistrationPermanent ==
    [][\A a \in Addr :
         /\ patientProfiles[a].isActive
            => /\ patientProfiles'[a].isActive
               /\ patientProfiles'[a].registrationTime =
                      patientProfiles[a].registrationTime
         /\ (~patientProfiles[a].isActive /\ patientProfiles'[a].isActive)
            => /\ txCount' = txCount + 1
               /\ call' = [op |-> "registerPatient", sender |-> a]
               /\ result' = "ok"
               /\ patientProfiles'[a].registrationTime = now
               /\ Len(RegisteredEvents(events', a)) = 1
         /\ (txCount' = txCount + 1 /\ RegisteredEvents(events', a) /= <<>>)
            => (~patientProfiles[a].isActive /\ patientProfiles'[a].isActive)
        ]_vars

\* A participant that registered at an earlier time has just updated its
\* levels.
C16_Witness ==
    /\ Called("updateMentalHealthLevels")
    /\ result = "ok"
    /\ patientProfiles[call.sender].isActive
    /\ patientProfiles[call.sender].registrationTime < now

\* The three handles a profile holds.
ProfileHandles(a) ==
    {patientProfiles[a].anxietyLevel, patientProfiles[a].depressionLevel,
     patientProfiles[a].stressLevel}

\* C17: in every reachable state each of the three handles of an active
\* profile carries a grant to the owner and to the counselor; the handles
\* an accepted updateMentalHealthLevels stores are new ones, holding the new
\* values and exactly the grants that call made (contract, owner,
\* counselor).
C17_ProfileHandlesGranted ==
    /\ [](\A a \in Addr :
            patientProfiles[a].isActive
            => \A h \in ProfileHandles(a) :
                  h.init /\ {a, counselor} \subseteq h.allowed)
    /\ [][\A c \in Addr, l \in ValueTriples :
            (/\ Calls("updateMentalHealthLevels", c)
             /\ result' = "ok"
             /\ updateMentalHealthLevels(c, l[1], l[2], l[3]))
            => /\ patientProfiles'[c].anxietyLevel =
                    [init |-> TRUE, plain |-> l[1],
                     allowed |-> {This, c, counselor}]
               /\ patientProfiles'[c].depressionLevel =
                    [init |-> TRUE, plain |-> l[2],
                     allowed |-> {This, c, counselor}]
               /\ patientProfiles'[c].stressLevel =
                    [init |-> TRUE, plain |-> l[3],
                     allowed |-> {This, c, counselor}]]_vars

\* A participant other than the counselor has replaced the levels it
\* registered with, at a later time, and holds handles for the new values.
C17_Witness ==
    /\ Called("updateMentalHealthLevels")
    /\ result = "ok"
    /\ call.sender /= counselor
    /\ patientProfiles[call.sender].registrationTime < now
    /\ patientProfiles[call.sender].anxietyLevel.plain = 5
    /\ \A h \in ProfileHandles(call.sender) :
           {call.sender, counselor} \subseteq h.allowed

StoredHandles ==
    UNION {ProfileHandles(a) : a \in Addr}
    \cup {sessions[i].sessionType : i \in SessionIds}
    \cup {sessions[i].severityLevel : i \in SessionIds}
    \cup {sessions[i].improvementScore : i \in SessionIds}
    \cup {therapyPlans[a].recommendedSessions : a \in Addr}
    \cup {therapyPlans[a].priorityLevel : a \in Addr}

\* C19: every handle stored in a profile, session or plan record, the
\* encrypted zero of a newly started session included, carries the
\* contract's own grant (allowThis).
C19_StoredHandlesSelfGranted ==
    \A h \in StoredHandles : h.init => This \in h.allowed

Readers(h) == h.allowed \ {This}

C22_OwnDataOnly ==
    /\ counselor = Deployer
    /\ \A a \in Addr \ {counselor} :
          /\ \A b \in Addr \ {a} :
                /\ \A h \in ProfileHandles(b) : a \notin h.allowed
                /\ a \notin therapyPlans[b].recommendedSessions.allowed
                /\ a \notin therapyPlans[b].priorityLevel.allowed
          /\ \A i \in SessionIds :
                /\ a \notin sessions[i].sessionType.allowed
                /\ a \notin sessions[i].severityLevel.allowed
                /\ (a \in sessions[i].improvementScore.allowed)
                   => sessions[i].patient = a

\* Two participants other than the counselor both hold profiles and one
\* of them a completed session, whose outcome it may read.
C22_Witness ==
    \E a \in Addr \ {counselor} : \E b \in Addr \ {counselor, a} :
        /\ patientProfiles[a].isActive
        /\ patientProfiles[b].isActive
        /\ \E i \in SessionIds :
              /\ sessions[i].patient = b
              /\ Finished(i)
              /\ b \in sessions[i].improvementScore.allowed

\* C23: the counselor is the identity that deployed the contract, in every
\* reachable state; no step changes it.
C23_CounselorFixed ==
    /\ [](counselor = Deployer)
    /\ [][counselor' = counselor]_vars

\* The counselor has sent a transaction of its own after others did.
C23_Witness ==
    /\ txCount > 2
    /\ call.sender = counselor
    /\ result = "ok"
    /\ counselor = Deployer

\* C24: lastSessionTime never decreases, whatever the step.
C24_LastSessionTimeMonotone ==
    [][lastSessionTime' >= lastSessionTime]_vars

\* A second session has been started: lastSessionTime has moved twice.
C24_Witness ==
    /\ Called("startCounselingSession")
    /\ result = "ok"
    /\ SessionExists(2)
    /\ lastSessionTime = now
    /\ lastSessionTime > sessions[1].startTime

\* The highest session id assigned so far.
LastAssigned == CHOOSE i \in AssignedIds : \A j \in AssignedIds : j <= i

\* C25: whenever a session exists, lastSessionTime is the startTime of the
\* session with the highest id; only a successful startCounselingSession
\* changes lastSessionTime; completeSession leaves it as it was.
C25_LastSessionTimeIsLastStart ==
    /\ [](AssignedIds /= {}
          => lastSessionTime = sessions[LastAssigned].startTime)
    /\ [][/\ (lastSessionTime' /= lastSessionTime)
             => /\ txCount' = txCount + 1
                /\ call'.op = "startCounselingSession"
                /\ result' = "ok"
          /\ (txCount' = txCount + 1 /\ call'.op = "completeSession")
             => lastSessionTime' = lastSessionTime]_vars

\* A session has just been completed some time after it was started, and
\* lastSessionTime is still the time it was started.
C25_Witness ==
    /\ Called("completeSession")
    /\ result = "ok"
    /\ AssignedIds = {1}
    /\ sessions[1].endTime = now
    /\ sessions[1].startTime < now
    /\ lastSessionTime = sessions[1].startTime

\* The sum over a set of identities of their session counts.
RECURSIVE SessionCountOver(_)
SessionCountOver(S) ==
    IF S = {} THEN 0
    ELSE LET a == CHOOSE x \in S : TRUE
         IN  getPatientSessionCount(a) + SessionCountOver(S \ {a})

C27_UnallocatedIdNotFound ==
    [][\A c \in Addr, id \in SessionIds, sc \in Scores :
         (/\ Calls("completeSession", c)
          /\ ~SessionExists(id)
          /\ completeSession(c, id, sc))
         => /\ result' = "Session not found"
            /\ storage' = storage]_vars

OnlyProfileOf(c) ==
    /\ \A b \in Addr \ {c} : patientProfiles'[b] = patientProfiles[b]
    /\ UNCHANGED <<counselor, currentSessionId, lastSessionTime,
                   sessions, therapyPlans, patientSessions>>

\* C30: registerPatient and updateMentalHealthLevels by an identity change
\* only that identity's profile, whose new handles are granted to the
\* contract, the identity and the counselor: the other profiles, the
\* sessions, the plans, the session lists, currentSessionId and
\* lastSessionTime are unchanged; updateMentalHealthLevels by an identity
\* without an active profile fails with "Patient not registered".
C30_ProfileCallsTouchOwnProfile ==
    [][/\ \A c \in Addr, l \in ValueTriples :
            (/\ Calls("registerPatient", c)
             /\ registerPatient(c, l[1], l[2], l[3]))
            => /\ OnlyProfileOf(c)
               /\ (result' = "ok")
                  => \A h \in ProfileHandles(c)' :
                        h.allowed = {This, c, counselor}
       /\ \A c \in Addr, l \in ValueTriples :
            (/\ Calls("updateMentalHealthLevels", c)
             /\ updateMentalHealthLevels(c, l[1], l[2], l[3]))
            => /\ OnlyProfileOf(c)
               /\ (result' = "ok")
                  => \A h \in ProfileHandles(c)' :
                        h.allowed = {This, c, counselor}
               /\ ~patientProfiles[c].isActive
                  => (result' = "Patient not registered"
                      /\ patientProfiles' = patientProfiles)]_vars

\* An identity has just replaced its levels while another identity holds a
\* profile with other values.
C30_Witness ==
    /\ Called("updateMentalHealthLevels")
    /\ result = "ok"
    /\ \E b \in Addr \ {call.sender} :
           /\ patientProfiles[b].isActive
           /\ patientProfiles[b].anxietyLevel.plain
                 /= patientProfiles[call.sender].anxietyLevel.plain

\* C31: a successful completeSession(id, score) changes only session id's
\* outcome handle, active flag, completed flag and endTime, and grants the
\* new outcome handle to the contract, the owner and the counselor; the
\* session's owner, startTime, type and severity handles, every other
\* session, all profiles and plans, the per-participant session lists and
\* currentSessionId are unchanged.
C31_CompleteSessionFrame ==
    [][\A c \in Addr, id \in SessionIds, score \in Scores :
         (/\ Calls("completeSession", c)
          /\ completeSession(c, id, score)
          /\ result' = "ok")
         => /\ sessions'[id].improvementScore =
                   [init |-> TRUE, plain |-> score,
                    allowed |-> {This, sessions[id].patient, counselor}]
            /\ ~sessions'[id].sessionActive
            /\ sessions'[id].sessionCompleted
            /\ sessions'[id].endTime = now
            /\ sessions'[id].patient = sessions[id].patient
            /\ sessions'[id].startTime = sessions[id].startTime
            /\ sessions'[id].sessionType = sessions[id].sessionType
            /\ sessions'[id].severityLevel = sessions[id].severityLevel
            /\ \A j \in SessionIds \ {id} : sessions'[j] = sessions[j]
            /\ UNCHANGED <<patientProfiles, therapyPlans, patientSessions,
                           currentSessionId>>]_vars

\* A session was completed at a later time than it started, while another
\* session, a profile and the session lists held data.
C31_Witness ==
    /\ Called("completeSession") /\ result = "ok"
    /\ \E i, j \in AssignedIds :
           /\ i /= j
           /\ Finished(i) /\ sessions[i].endTime = now
           /\ sessions[i].endTime > sessions[i].startTime
           /\ Active(j)

\* The ids of the sessions owned by an identity.
OwnedIds(a) == {i \in SessionIds : sessions[i].patient = a}

\* C32: in every reachable state the session-id list of each identity holds
\* exactly the ids of the sessions whose owner is that identity, each once
\* and in strictly increasing order; and getPatientSessionCount of an
\* identity counts its successful startCounselingSession calls (0 at
\* construction, one more after each such call, unchanged by anything else).
C32_SessionListsMatchOwners ==
    /\ [](\A a \in Addr :
            LET list == patientSessions[a] IN
            /\ {list[k] : k \in 1..Len(list)} = OwnedIds(a)
            /\ \A k \in 1..(Len(list) - 1) : list[k] < list[k + 1]
            /\ getPatientSessionCount(a) = Cardinality(OwnedIds(a)))
    /\ \A a \in Addr : getPatientSessionCount(a) = 0
    /\ [][\A a \in Addr :
            getPatientSessionCount(a)' =
               IF /\ Calls("startCounselingSession", a)
                  /\ result' = "ok"
               THEN getPatientSessionCount(a) + 1
               ELSE getPatientSessionCount(a)]_vars

\* One identity owns two sessions.
C32_Witness ==
    \E a \in Addr :
        /\ getPatientSessionCount(a) = 2
        /\ patientSessions[a] = <<1, 2>>
        /\ sessions[1].patient = a /\ sessions[2].patient = a

\* C33: records exist only for registered identities: the owner of every
\* allocated session has an active profile, and every identity with an
\* active therapy plan has an active profile.
C33_RecordsOnlyForRegistered ==
    /\ \A i \in AssignedIds :
           /\ sessions[i].patient \in Addr
           /\ patientProfiles[sessions[i].patient].isActive
    /\ \A i \in SessionIds :
           (sessions[i].sessionActive \/ sessions[i].sessionCompleted)
           => i \in AssignedIds
    /\ \A a \in Addr :
           therapyPlans[a].planActive => patientProfiles[a].isActive

\* A session and a plan exist while some identities hold no profile.
C33_Witness ==
    /\ AssignedIds /= {}
    /\ \E a \in Addr : therapyPlans[a].planActive
    /\ \E a \in Addr :
           /\ ~patientProfiles[a].isActive
           /\ OwnedIds(a) = {}
           /\ ~therapyPlans[a].planActive

\* C34: for every allocated session, endTime = 0 exactly while the session
\* is not completed; once completed, endTime is the time of the completing
\* call, stays that, and is >= startTime; startTime is the time of the
\* creating call and never changes.
C34_SessionTimes ==
    /\ [](\A i \in AssignedIds :
            /\ (sessions[i].endTime = 0) <=> ~sessions[i].sessionCompleted
            /\ sessions[i].sessionCompleted
               => sessions[i].endTime >= sessions[i].startTime
            /\ sessions[i].startTime <= now)
    /\ [][\A i \in SessionIds :
            /\ (i \in AssignedIds)
               => /\ i \in AssignedIds'
                  /\ sessions'[i].startTime = sessions[i].startTime
            /\ (i \notin AssignedIds /\ i \in AssignedIds')
               => /\ call'.op = "startCounselingSession" /\ result' = "ok"
                  /\ sessions'[i].startTime = now
            /\ (~sessions[i].sessionCompleted /\ sessions'[i].sessionCompleted)
               => /\ call'.op = "completeSession" /\ result' = "ok"
                  /\ sessions'[i].endTime = now
            /\ sessions[i].sessionCompleted
               => sessions'[i].endTime = sessions[i].endTime]_vars

\* A session that was completed some time after its start keeps its times
\* while a second session is created.
C34_Witness ==
    /\ Called("startCounselingSession") /\ result = "ok"
    /\ Finished(1)
    /\ sessions[1].endTime > sessions[1].startTime
    /\ Active(2)
    /\ sessions[2].startTime = now /\ sessions[2].endTime = 0

\* The events of the given name that the transaction of this step emits.
Emitted(name) == {k \in 1..Len(events') : events'[k].name = name}

C36_CooldownEnds ==
    /\ [](( /\ Called("startCounselingSession") /\ result = "ok"
            /\ lastSessionTime = now /\ ~getSessionAvailability.available)
          => <>getSessionAvailability.available)
    /\ [][(getSessionAvailability.available
            /\ ~getSessionAvailability.available')
           => /\ Calls("startCounselingSession", call'.sender)
              /\ result' = "ok"
              /\ lastSessionTime' = now]_vars

\* Availability has returned after a session start, and a completion of
\* that session has left it true.
C36_Witness ==
    /\ Called("completeSession") /\ result = "ok"
    /\ Finished(1)
    /\ now >= sessions[1].startTime + BREAK_DURATION
    /\ lastSessionTime = sessions[1].startTime
    /\ getSessionAvailability.available

\* C37: currentSessionId is a uint16 with checked increment.  It never
\* decreases or wraps, a successful startCounselingSession uses an id that
\* was never allocated and moves the counter one up within the type's
\* range, and when the counter is at MaxUint16 every startCounselingSession
\* call fails with no change of storage (with the arithmetic panic when its
\* other checks pass), so the counter stays there and no session is ever
\* started again.
C37_CheckedSessionCounter ==
    /\ [](currentSessionId \in 1..MaxUint16)
    /\ [][/\ currentSessionId' >= currentSessionId
          /\ (call'.op = "startCounselingSession" /\ result' = "ok"
              /\ txCount' = txCount + 1)
             => /\ ~SessionExists(currentSessionId)
                /\ sessions'[currentSessionId].patient = call'.sender
                /\ currentSessionId' = currentSessionId + 1
          /\ currentSessionId = MaxUint16
             => /\ currentSessionId' = MaxUint16
                /\ \A c \in ValueAddr, t \in SessionTypes,
                      v \in SeverityLevels :
                      (/\ Calls("startCounselingSession", c)
                       /\ startCounselingSession(c, t, v))
                      => /\ result' /= "ok"
                         /\ events' = <<>>
                         /\ UNCHANGED storage
                         /\ (/\ patientProfiles[c].isActive
                             /\ isSessionTimeAvailable
                             /\ t \in 1..4 /\ v \in 1..10)
                            => result' = "Panic(0x11)"]_vars

\* The counter is at its maximum, the last id below it is allocated, and a
\* startCounselingSession call that passed every check has just failed.
C37_Witness ==
    /\ currentSessionId = MaxUint16
    /\ SessionExists(MaxUint16 - 1)
    /\ ~SessionExists(MaxUint16)
    /\ Called("startCounselingSession")
    /\ result = "Panic(0x11)"
    /\ isSessionTimeAvailable

\* What the calls made so far add to and take from the counter since the
\* last reset: the plain sums of the high halves and of the low halves.
RECURSIVE Incremented(_)
Incremented(calls) ==
    IF calls = <<>> THEN <<0, 0>>
    ELSE LET c == calls[Len(calls)]
             before == SubSeq(calls, 1, Len(calls) - 1)
         IN  IF c.op = "reset" THEN <<0, 0>>
             ELSE IF c.op \in {"increment", "incrementEncrypted"} /\ c.ok
             THEN <<Incremented(before)[1] + c.value[1],
                    Incremented(before)[2] + c.value[2]>>
             ELSE Incremented(before)

RECURSIVE Decremented(_)
Decremented(calls) ==
    IF calls = <<>> THEN <<0, 0>>
    ELSE LET c == calls[Len(calls)]
             before == SubSeq(calls, 1, Len(calls) - 1)
         IN  IF c.op = "reset" THEN <<0, 0>>
             ELSE IF c.op = "decrement" /\ c.ok
             THEN <<Decremented(before)[1] + c.value[1],
                    Decremented(before)[2] + c.value[2]>>
             ELSE Decremented(before)

\* (up - down) modulo 2^32, for sums given by halves.
DifferenceMod32(up, down) ==
    LET low == up[2] - down[2]
        high == up[1] - down[1] + low \div Half
    IN  <<high % Half, low % Half>>

\* C38: FHECounter starts from zero, and after any sequence of increment,
\* decrement and reset calls by any callers the plaintext behind the
\* counter handle is (sum of the increments since the last reset minus sum
\* of the decrements since the last reset) modulo 2^32; none of these calls
\* fails, and a decrement below zero wraps.
C38_CounterIsWrappedSum ==
    /\ getCount.plain \in (0..MaxUint16) \X (0..MaxUint16)
    /\ getCount.plain =
          DifferenceMod32(Incremented(counterCalls), Decremented(counterCalls))
    /\ \A k \in 1..Len(counterCalls) :
           counterCalls[k].op \in {"increment", "decrement", "reset"}
           => counterCalls[k].ok
    /\ counterCalls = <<>> => getCount.plain = <<0, 0>>

\* After an increment and a reset, a decrement took the counter below zero
\* and it wrapped to the top of the range.
C38_Witness ==
    /\ Len(counterCalls) = 3
    /\ counterCalls[1].op = "increment"
    /\ counterCalls[2].op = "reset"
    /\ counterCalls[3].op = "decrement" /\ counterCalls[3].value = <<0, 1>>
    /\ getCount.plain = MaxUint32

\* C39: whenever the page's currentSessionId is not null it identifies a
\* session owned by the connected account (the part of the claim that does
\* not depend on when the session was last read: a session's owner never
\* changes).
C39_PageSessionOwnedByAccount ==
    app_currentSessionId /= null
    => /\ app_currentSessionId \in AssignedIds
       /\ sessions[app_currentSessionId].patient = userAccount
====
